---- MODULE Spec2Model ----
(***************************************************************************)
(* The generation pipeline of website_builder:                             *)
(*   backend/app/api/endpoints.py      the clone and build-portfolio flows *)
(*   backend/app/services/llm_service.py  the three model calls            *)
(*                                                                         *)
(* Text is modelled as a sequence of tokens.  Every token is an atomic     *)
(* piece of text (a word, a marker, a blank) with its length in characters *)
(* given by TokLen; the markers the code searches for are tokens of their  *)
(* own and no two tokens of the alphabet spell a marker across their       *)
(* junction, so substring search, startswith/endswith, slicing by a marker *)
(* length and strip() are exact on token sequences.                        *)
(***************************************************************************)
EXTENDS Integers, Sequences, FiniteSets, TLC

VARIABLES run, vertex_ai_initialized, GCP_PROJECT_ID, norm, now

vars == <<run, vertex_ai_initialized, GCP_PROJECT_ID, norm, now>>

----------------------------------------------------------------------------
(* Bounds of the model *)

\* request slots; a slot is reused once its response has been returned
NumRuns == 2
\* longest simplified_html the scraper returns, in tokens
MaxHtmlTokens == 2
\* longest raw model output given to the fence normalization, in tokens
MaxRawTokens == 5
\* seconds the wall clock advances while requests are in flight together
MaxClock == 1

Runs == 1..NumRuns

----------------------------------------------------------------------------
(* Text *)

CrashMarker == "Application error: a client-side exception has occurred"
RootDiv == "<div id=\"root\"></div>"
Heading == "<h1>Hi</h1>"
\* a block of ordinary markup, 79 characters long: with RootDiv it makes
\* 100 characters
Padding79 == "<p>...79 characters of ordinary markup...</p>"
\* the markdown fence marker, three backticks (a backtick cannot be written in a string here)
Fence == "<3 backticks>"
HtmlTag == "html"
Space == " "
Newline == "\n"
Doc == "<!DOCTYPE html><html></html>"

\* len(token)
TokLen(t) ==
  CASE t = CrashMarker -> 55
    [] t = RootDiv -> 21
    [] t = Heading -> 11
    [] t = Padding79 -> 79
    [] t = Fence -> 3
    [] t = HtmlTag -> 4
    [] t = Space -> 1
    [] t = Newline -> 1
    [] t = Doc -> 28
    [] t \in {"failed", "FAILED"} -> 6
    [] t \in {"empty", "Empty"} -> 5
    [] t = "John" -> 4
    [] t = "Doe" -> 3
    [] t = "_" -> 1
    [] t = "portfolio" -> 9
    [] OTHER -> 0

\* str.lower() of one token
LowerTok(t) ==
  CASE t = "FAILED" -> "failed"
    [] t = "Empty" -> "empty"
    [] t = CrashMarker -> "application error: a client-side exception has occurred"
    [] t = Doc -> "<!doctype html><html></html>"
    [] t = Heading -> "<h1>hi</h1>"
    [] t = "John" -> "john"
    [] t = "Doe" -> "doe"
    [] OTHER -> t

\* str.lower()
Lower(s) == [i \in 1..Len(s) |-> LowerTok(s[i])]

\* needle in s
Contains(s, needle) == \E i \in 1..Len(s) : s[i] = needle

RECURSIVE StrLen(_)
\* len(s)
StrLen(s) == IF s = <<>> THEN 0 ELSE TokLen(Head(s)) + StrLen(Tail(s))

IsSpace(t) == t \in {Space, Newline}

RECURSIVE LStrip(_)
LStrip(s) == IF s # <<>> /\ IsSpace(Head(s)) THEN LStrip(Tail(s)) ELSE s

RECURSIVE RStrip(_)
RStrip(s) ==
  IF s # <<>> /\ IsSpace(s[Len(s)]) THEN RStrip(SubSeq(s, 1, Len(s) - 1)) ELSE s

\* str.strip()
Strip(s) == RStrip(LStrip(s))

RECURSIVE DropChars(_, _)
\* s[n:], for n on a token boundary
DropChars(s, n) ==
  IF n <= 0 \/ s = <<>> THEN s ELSE DropChars(Tail(s), n - TokLen(Head(s)))

RECURSIVE DropLastChars(_, _)
\* s[:-n], for n on a token boundary
DropLastChars(s, n) ==
  IF n <= 0 \/ s = <<>> THEN s
  ELSE DropLastChars(SubSeq(s, 1, Len(s) - 1), n - TokLen(s[Len(s)]))

\* s.startswith("```html")
StartsWithHtmlFence(s) == Len(s) >= 2 /\ s[1] = Fence /\ s[2] = HtmlTag

\* s.endswith("```")
EndsWithFence(s) == s # <<>> /\ s[Len(s)] = Fence

\* variant: the trailing marker is looked for only when no leading marker
\* was stripped
StripFencesOneMarkerPerCall(raw_generated_text) ==
  LET lead == StartsWithHtmlFence(Strip(raw_generated_text))
      g1 == IF lead THEN DropChars(Strip(raw_generated_text), 7)
            ELSE raw_generated_text
      g2 == IF ~lead /\ EndsWithFence(Strip(g1))
            THEN DropLastChars(Strip(g1), 3) ELSE g1
  IN Strip(g2)

\* variant: the result is returned without the final trim
StripFencesNoFinalTrim(raw_generated_text) ==
  LET g1 == IF StartsWithHtmlFence(Strip(raw_generated_text))
            THEN DropChars(Strip(raw_generated_text), 7)
            ELSE raw_generated_text
      g2 == IF EndsWithFence(Strip(g1))
            THEN DropLastChars(Strip(g1), 3)
            ELSE g1
  IN g2

\* the fence stripping of both generation functions
StripFences(raw_generated_text) ==
  LET g1 == IF StartsWithHtmlFence(Strip(raw_generated_text))
            THEN DropChars(Strip(raw_generated_text), 7)
            ELSE raw_generated_text
      g2 == IF EndsWithFence(Strip(g1))
            THEN DropLastChars(Strip(g1), 3)
            ELSE g1
  IN Strip(g2)

RECURSIVE Concat(_)
\* "".join(parts)
Concat(parts) == IF parts = <<>> THEN <<>> ELSE Head(parts) \o Concat(Tail(parts))

----------------------------------------------------------------------------
(* Inputs the collaborators can produce *)

HtmlTokens ==
  {"failed", "FAILED", "Empty", CrashMarker, RootDiv, Heading, Padding79}

RECURSIVE SeqsUpTo(_, _)
\* every sequence over S of length at most n
SeqsUpTo(S, n) ==
  IF n = 0 THEN {<<>>}
  ELSE LET shorter == SeqsUpTo(S, n - 1)
       IN shorter \cup {Append(q, x) : q \in shorter, x \in S}

\* ScrapedContext as the scraper returns it; screenshots_ok: both base64 strings decode
ScrapedContexts ==
  [simplified_html : SeqsUpTo(HtmlTokens, MaxHtmlTokens), screenshots_ok : BOOLEAN]

\* req_body.url of a clone request: a page of a site, and another site given
\* with a port and without a scheme
Urls ==
  { <<"https:", "//", "example", ".", "com", "/", "about">>,
    <<"localhost", ":", "3000">> }

\* a JSON member: the key is absent, null, or holds a value
Absent == [tag |-> "absent", val |-> <<>>]
Null == [tag |-> "null", val |-> <<>>]
Val(v) == [tag |-> "value", val |-> v]

\* what json.loads can return for the parser's output
JsonValues ==
  [type : {"object"},
   name : {Absent, Null, Val(<<>>), Val(<<"John", Space, "Doe">>)},
   experience : {Absent, Null, Val(<<>>), Val(<<"job">>)}]
  \cup {[type |-> "array", name |-> Absent, experience |-> Absent]}

NoJson == [type |-> "none", name |-> Absent, experience |-> Absent]

\* the provider's responses to a generation call
Response(candidates, has_content, parts, finish_reason) ==
  [candidates |-> candidates, has_content |-> has_content, parts |-> parts,
   finish_reason |-> finish_reason]

GeneratedTexts ==
  { <<<<Doc>>>>,
    <<<<Fence, HtmlTag, Newline>>, <<Doc, Newline, Fence, Newline>>>>,
    <<<<Space, Newline>>>>,
    <<<<Fence, HtmlTag, Newline, Fence>>>> }

Responses ==
  {Response(FALSE, FALSE, <<>>, 0), Response(TRUE, FALSE, <<>>, 1),
   Response(TRUE, TRUE, <<>>, 1), Response(TRUE, TRUE, <<>>, 2)}
  \cup {Response(TRUE, TRUE, t, f) : t \in GeneratedTexts, f \in {1, 2}}

----------------------------------------------------------------------------
(* Exceptions and the handlers they pass through *)

Exc(type, status_code, detail) ==
  [type |-> type, status_code |-> status_code, detail |-> detail]

HTTPException(status_code, detail) == Exc("HTTPException", status_code, detail)

\* variant: one except Exception clause for everything
EndpointCatchAll500(e) == HTTPException(500, "An unexpected server error occurred.")

\* variant: no except clause at all
EndpointCatchNothing(e) == e

\* except clauses of clone_website_and_save_endpoint and build_portfolio_endpoint
EndpointCatch(e) ==
  IF e.type = "HTTPException" THEN e
  ELSE HTTPException(500, "An unexpected server error occurred.")

\* except Exception of the two generation functions' try block
GenCatch(task, e) ==
  IF task = "CLONE"
  THEN HTTPException(500, "Failed to generate HTML with LLM.")
  ELSE HTTPException(500, "Failed to generate portfolio with LLM.")

\* except Exception of parse_resume_to_json
ParseCatch(e) == HTTPException(500, "Failed to parse resume data with LLM.")

----------------------------------------------------------------------------
(* One request *)

Ev(op, kind, secs) == [op |-> op, kind |-> kind, secs |-> secs]

NoArtifact == [store |-> "none", path |-> <<>>, content |-> <<>>, complete |-> FALSE]

\* no response has been received
NoResponse == Response(FALSE, FALSE, <<>>, -1)

IdleRun ==
  [flow |-> "none", pc |-> "idle", simplified_html |-> <<>>, screenshots_ok |-> FALSE,
   resume_json |-> NoJson, task |-> "none", attempt |-> 0, log |-> <<>>,
   generated |-> Absent, status_code |-> 0, detail |-> "", finish_reason |-> 0,
   artifact |-> NoArtifact, raised |-> "none", response |-> NoResponse,
   url |-> <<>>]

Logged(rec, e) == [rec EXCEPT !.log = Append(@, e)]

\* the request ends with the HTTP error the endpoint lets out
Raise(rec, e) ==
  [rec EXCEPT !.pc = "failed", !.status_code = EndpointCatch(e).status_code,
              !.detail = EndpointCatch(e).detail, !.raised = e.type]

----------------------------------------------------------------------------
(* Validation of the scraped context *)

\* clone_website_and_save_endpoint, the check after the scrape
CloneValidate(simplified_html) ==
  IF \/ simplified_html = <<>>
     \/ Contains(Lower(simplified_html), "failed")
     \/ Contains(Lower(simplified_html), "empty")
  THEN HTTPException(422, "HTML scraping/cleaning failed.")
  ELSE Exc("none", 0, "")

\* the build flow's checks without the crash check (as in the clone flow)
BuildValidateNoCrashCheck(simplified_html) ==
  IF simplified_html = <<>> \/ Contains(Lower(simplified_html), "failed")
  THEN HTTPException(422, "Scraping the reference URL failed. Cannot proceed.")
  ELSE IF /\ simplified_html # <<>>
          /\ StrLen(simplified_html) < 100
          /\ Contains(simplified_html, RootDiv)
  THEN HTTPException(422, "The reference site seems to be a dynamic application that did not load content in time.")
  ELSE Exc("none", 0, "")

\* the build flow's checks with the shell check moved before the crash check
BuildValidateShellFirst(simplified_html) ==
  IF simplified_html = <<>> \/ Contains(Lower(simplified_html), "failed")
  THEN HTTPException(422, "Scraping the reference URL failed. Cannot proceed.")
  ELSE IF /\ simplified_html # <<>>
          /\ StrLen(simplified_html) < 100
          /\ Contains(simplified_html, RootDiv)
  THEN HTTPException(422, "The reference site seems to be a dynamic application that did not load content in time.")
  ELSE IF Contains(simplified_html, CrashMarker)
  THEN HTTPException(422, "The provided reference website encountered a client-side error during processing.")
  ELSE Exc("none", 0, "")

\* the build flow's checks without the empty-shell check
BuildValidateNoShellCheck(simplified_html) ==
  IF simplified_html = <<>> \/ Contains(Lower(simplified_html), "failed")
  THEN HTTPException(422, "Scraping the reference URL failed. Cannot proceed.")
  ELSE IF Contains(simplified_html, CrashMarker)
  THEN HTTPException(422, "The provided reference website encountered a client-side error during processing.")
  ELSE Exc("none", 0, "")

\* build_portfolio_endpoint, the three checks after the scrape, in the code's order
\* variant: a shell of exactly 100 characters is rejected too
BuildValidateShellUpTo100(simplified_html) ==
  IF simplified_html = <<>> \/ Contains(Lower(simplified_html), "failed")
  THEN HTTPException(422, "Scraping the reference URL failed. Cannot proceed.")
  ELSE IF Contains(simplified_html, CrashMarker)
  THEN HTTPException(422, "The provided reference website encountered a client-side error during processing.")
  ELSE IF /\ simplified_html # <<>>
          /\ StrLen(simplified_html) <= 100
          /\ Contains(simplified_html, RootDiv)
  THEN HTTPException(422, "The reference site seems to be a dynamic application that did not load content in time.")
  ELSE Exc("none", 0, "")

BuildValidate(simplified_html) ==
  IF simplified_html = <<>> \/ Contains(Lower(simplified_html), "failed")
  THEN HTTPException(422, "Scraping the reference URL failed. Cannot proceed.")
  ELSE IF Contains(simplified_html, CrashMarker)
  THEN HTTPException(422, "The provided reference website encountered a client-side error during processing.")
  ELSE IF /\ simplified_html # <<>>
          /\ StrLen(simplified_html) < 100
          /\ Contains(simplified_html, RootDiv)
  THEN HTTPException(422, "The reference site seems to be a dynamic application that did not load content in time.")
  ELSE Exc("none", 0, "")

\* bool(resume_json.get(key)): absent and null give None, an empty string or list is falsy
Truthy(member) == member.tag = "value" /\ member.val # <<>>

\* the profile check asking for a name and an experience entry, both
ProfileUsableNeedsBoth(resume_json) ==
  Truthy(resume_json.name) /\ Truthy(resume_json.experience)

\* the parsed profile is usable: not (not name and not experience)
ProfileUsable(resume_json) ==
  ~(~Truthy(resume_json.name) /\ ~Truthy(resume_json.experience))

\* not generated_html.strip()
IsBlank(generated_html) == Strip(generated_html) = <<>>

\* the build flow raises on a blank document
BuildRejectsBlank(generated_portfolio_html) == IsBlank(generated_portfolio_html)

----------------------------------------------------------------------------
(* llm_service: initialisation and the retry loop *)

\* variant: one retry more
max_retries_plus_one == 2 + 1

max_retries == 2
base_delay == 5
ENABLE_LLM_CLONING == TRUE

\* initialize_vertex_ai(): the flag it leaves, what it returns, whether it called
\* aiplatform.init (which succeeds or raises)
\* variant: the flag is not looked at, aiplatform.init runs at every call
initialize_vertex_ai_every_time(initialized, project_id) ==
  IF ~project_id THEN {[flag |-> FALSE, ret |-> FALSE, called |-> FALSE]}
  ELSE {[flag |-> TRUE, ret |-> TRUE, called |-> TRUE],
        [flag |-> FALSE, ret |-> FALSE, called |-> TRUE]}

initialize_vertex_ai(initialized, project_id) ==
  IF initialized THEN {[flag |-> TRUE, ret |-> TRUE, called |-> FALSE]}
  ELSE IF ~project_id THEN {[flag |-> FALSE, ret |-> FALSE, called |-> FALSE]}
  ELSE {[flag |-> TRUE, ret |-> TRUE, called |-> TRUE],
        [flag |-> FALSE, ret |-> FALSE, called |-> TRUE]}

InitFailedDetail(task) ==
  CASE task = "CLONE" -> "Vertex AI not initialized or initialization failed."
    [] task = "PARSE_RESUME" -> "Vertex AI not initialized for resume parsing."
    [] OTHER -> "Vertex AI not initialized for portfolio generation."

\* variant: for attempt in range(max_retries)
InLoopOnePassFewer(attempt) == attempt < max_retries

\* for attempt in range(max_retries + 1)
InLoop(attempt) == attempt < max_retries + 1

\* the handler with its bound off by one: a sleep follows the last attempt too
RetryAllowedOffByOne(attempt) == attempt <= max_retries

\* if attempt < max_retries, in the ResourceExhausted handler
RetryAllowed(attempt) == attempt < max_retries

\* delay = base_delay * (2 ** attempt)
Delay(attempt) == base_delay * (2 ^ attempt)

\* one pass of the retry loop up to the await of generate_content_async: the prompt
\* parts are built (base64.b64decode raises on a bad screenshot, inside the try)
BeginAttempt(rec) ==
  IF ~InLoop(rec.attempt)
  THEN Raise(rec, HTTPException(500, "generation failed after all attempts."))
  ELSE LET assembling == Logged(rec, Ev("assemble", rec.task, 0))
       IN IF ~rec.screenshots_ok
          THEN Raise(assembling, GenCatch(rec.task, Exc("binascii.Error", 0, "")))
          ELSE [Logged(assembling, Ev("call", rec.task, 0)) EXCEPT !.pc = "gen_wait"]

\* variant: the result of initialize_vertex_ai() is not looked at
EnterServiceIgnoringInit(rec, task, initialized, project_id) ==
  { [flag |-> o.flag,
     rec |->
       LET entered == Logged([rec EXCEPT !.task = task, !.attempt = 0],
                             Ev("initialize", task, 0))
           inited == IF o.called THEN Logged(entered, Ev("aiplatform.init", task, 0))
                     ELSE entered
       IN IF task = "PARSE_RESUME"
          THEN [Logged(inited, Ev("call", task, 0)) EXCEPT !.pc = "parse_wait"]
          ELSE BeginAttempt(inited)]
    : o \in initialize_vertex_ai(initialized, project_id) }

\* entry of a service function: initialize_vertex_ai(), then the first model call
EnterService(rec, task, initialized, project_id) ==
  { [flag |-> o.flag,
     rec |->
       LET entered == Logged([rec EXCEPT !.task = task, !.attempt = 0],
                             Ev("initialize", task, 0))
           inited == IF o.called THEN Logged(entered, Ev("aiplatform.init", task, 0))
                     ELSE entered
       IN IF ~o.ret THEN Raise(inited, HTTPException(500, InitFailedDetail(task)))
          ELSE IF task = "PARSE_RESUME"
          THEN [Logged(inited, Ev("call", task, 0)) EXCEPT !.pc = "parse_wait"]
          ELSE BeginAttempt(inited)]
    : o \in initialize_vertex_ai(initialized, project_id) }

\* except ResourceExhausted: sleep before the next pass, or give up with 429
HandleResourceExhausted(rec) ==
  IF RetryAllowed(rec.attempt)
  THEN [Logged(rec, Ev("sleep", rec.task, Delay(rec.attempt))) EXCEPT !.pc = "gen_sleep"]
  ELSE Raise(rec, HTTPException(429, "Resource exhausted after retries."))

\* every provider error handled the way resource exhaustion is
HandleOtherErrorByRetrying(rec) == HandleResourceExhausted(rec)

\* except Exception: the call fails at once
HandleOtherError(rec) == Raise(rec, GenCatch(rec.task, Exc("Exception", 0, "")))

\* variant: a response without content is taken for a transient failure
HandleEmptyResponseByRetrying(rec) == HandleResourceExhausted(rec)

\* raise HTTPException(500, ...) inside the try: its except Exception catches it
HandleEmptyResponse(rec) ==
  Raise(rec, GenCatch(rec.task,
      HTTPException(500, "LLM response did not contain valid candidates or content.")))

\* variant: a response cut at the output limit is not taken for content
UsableUnlessTruncated(response) ==
  /\ response.candidates /\ response.has_content /\ response.parts # <<>>
  /\ response.finish_reason # 2

\* the response has a candidate with content parts
\* (CLONE: response.candidates and candidate.content and candidate.content.parts;
\*  BUILD_PORTFOLIO: response.candidates and response.candidates[0].content.parts,
\*  which raises AttributeError on a missing content: the same except Exception)
Usable(response) ==
  response.candidates /\ response.has_content /\ response.parts # <<>>

\* "".join(p.text for p in parts if ...) and the fence stripping
GeneratedHtml(response) == StripFences(Concat(response.parts))

----------------------------------------------------------------------------
(* Persisting the document *)

\* str.replace(" ", "_")
SpacesToUnderscores(s) == [i \in 1..Len(s) |-> IF s[i] = Space THEN "_" ELSE s[i]]

\* resume_json.get("name", "portfolio").strip().replace(" ", "_").lower();
\* a null name is None, and None.strip() raises AttributeError
PersonName(resume_json) ==
  CASE resume_json.name.tag = "null" -> [raises |-> TRUE, name |-> <<>>]
    [] resume_json.name.tag = "absent" -> [raises |-> FALSE, name |-> <<"portfolio">>]
    [] OTHER -> [raises |-> FALSE,
                 name |-> Lower(SpacesToUnderscores(Strip(resume_json.name.val)))]

\* datetime.now().strftime("%Y%m%d_%H%M%S"), for the seconds of the clock
Timestamp(t) ==
  CASE t = 0 -> "20250101_120000"
    [] t = 1 -> "20250101_120001"
    [] t = 2 -> "20250101_120002"
    [] OTHER -> "20250101_120003"

RECURSIVE AfterLast(_, _)
\* s.split(sep)[-1]
AfterLast(s, sep) ==
  IF ~Contains(s, sep) THEN s
  ELSE AfterLast(Tail(s), sep)

RECURSIVE UpToFirst(_, _)
\* s.split(sep)[0]
UpToFirst(s, sep) ==
  IF s = <<>> \/ Head(s) = sep THEN <<>>
  ELSE <<Head(s)>> \o UpToFirst(Tail(s), sep)

\* s.replace('.', '_').replace(':', '_')
DotsAndColonsToUnderscores(s) ==
  [i \in 1..Len(s) |-> IF s[i] \in {".", ":"} THEN "_" ELSE s[i]]

\* req_body.url.split('//')[-1].split('/')[0].replace('.', '_').replace(':', '_')
SanitizedUrlPart(url) ==
  DotsAndColonsToUnderscores(UpToFirst(AfterLast(url, "//"), "/"))

\* outcomes of "with open(file_path, 'w') as f: f.write(html)": open creates the
\* file and may raise IOError before it does; write may raise IOError after it
FileOutcomes == {"written", "open_raises", "write_raises"}

\* outcomes of s3_service.upload_html_to_s3
UploadOutcomes == {"uploaded", "raises"}

\* clone_website_and_save_endpoint after generate_html_with_llm returned
CloneFinish(rec, llm_generated_html, io) ==
  LET \* a blank document only prints a warning
      warned == IF ENABLE_LLM_CLONING /\ IsBlank(llm_generated_html)
                THEN Logged(rec, Ev("warning", "blank", 0))
                ELSE rec
      opening == Logged(warned, Ev("open", "file", 0))
      path == <<"clone_">> \o SanitizedUrlPart(rec.url)
                \o <<"_", Timestamp(now), ".html">>
  IN   CASE io = "open_raises" ->
                 Raise(opening, HTTPException(500, "Failed to save generated HTML file."))
            [] io = "write_raises" ->
                 Raise([Logged(opening, Ev("write", "file", 0)) EXCEPT
                          !.artifact = [store |-> "file", path |-> path,
                                        content |-> <<>>, complete |-> FALSE]],
                       HTTPException(500, "Failed to save generated HTML file."))
            [] OTHER ->
                 [Logged(opening, Ev("write", "file", 0)) EXCEPT
                    !.artifact = [store |-> "file", path |-> path,
                                  content |-> llm_generated_html, complete |-> TRUE],
                    !.pc = "done", !.status_code = 200,
                    !.detail = "Website cloned and HTML saved."]

\* build_portfolio_endpoint after generate_portfolio_from_context returned
BuildFinish(rec, generated_portfolio_html, io) ==
  IF BuildRejectsBlank(generated_portfolio_html)
  THEN Raise(rec, HTTPException(500, "LLM generated a blank portfolio."))
  ELSE IF PersonName(rec.resume_json).raises
  THEN Raise(rec, Exc("AttributeError", 0, ""))
  ELSE LET uploading == Logged(rec, Ev("upload", "s3", 0))
           path == <<"portfolios/">> \o PersonName(rec.resume_json).name
                     \o <<"_portfolio_", Timestamp(now), ".html">>
       IN IF io = "raises"
          THEN Raise(uploading, Exc("Exception", 0, ""))
          ELSE [uploading EXCEPT
                  !.artifact = [store |-> "s3", path |-> path,
                                content |-> generated_portfolio_html,
                                complete |-> TRUE],
                  !.pc = "done", !.status_code = 200,
                  !.detail = "Portfolio built and deployed successfully."]

----------------------------------------------------------------------------
(* The state machine *)

\* no text is being normalized outside a request
NoNorm == [stage |-> "none", raw |-> <<>>, once |-> <<>>, twice |-> <<>>]

Init ==
  /\ run = [r \in Runs |-> IdleRun]
  /\ vertex_ai_initialized = FALSE
  /\ GCP_PROJECT_ID \in BOOLEAN
  /\ norm = NoNorm
  /\ now = 0

Set(r, rec) == run' = [run EXCEPT ![r] = rec] /\ UNCHANGED <<norm, now>>

\* POST /clone-website-and-save arrives: the scraper is called
StartClone(r) ==
  /\ run[r].pc = "idle"
  /\ \E url \in Urls :
       Set(r, [Logged(run[r], Ev("scrape", "clone", 0)) EXCEPT
                 !.flow = "clone", !.pc = "scraping", !.url = url])
  /\ UNCHANGED <<vertex_ai_initialized, GCP_PROJECT_ID>>

\* POST /build-portfolio arrives: the scraper is called
StartBuild(r) ==
  /\ run[r].pc = "idle"
  /\ Set(r, [Logged(run[r], Ev("scrape", "build", 0)) EXCEPT
               !.flow = "build", !.pc = "scraping"])
  /\ UNCHANGED <<vertex_ai_initialized, GCP_PROJECT_ID>>

\* scrape_website_context raises
ScrapeRaises(r) ==
  /\ run[r].pc = "scraping"
  /\ Set(r, Raise(run[r], Exc("Exception", 0, "")))
  /\ UNCHANGED <<vertex_ai_initialized, GCP_PROJECT_ID>>

\* clone flow: the scraper returns; validation; generate_html_with_llm up to its
\* first model call
CloneScraped(r) ==
  /\ run[r].pc = "scraping"
  /\ run[r].flow = "clone"
  /\ \E ctx \in ScrapedContexts :
       LET rec == [Logged(run[r], Ev("scraped", "clone", 0)) EXCEPT
                     !.simplified_html = ctx.simplified_html,
                     !.screenshots_ok = ctx.screenshots_ok]
           verdict == CloneValidate(ctx.simplified_html)
       IN IF verdict.type # "none"
          THEN Set(r, Raise(rec, verdict)) /\ UNCHANGED vertex_ai_initialized
          ELSE IF ~ENABLE_LLM_CLONING
          THEN \E io \in FileOutcomes :
                 /\ Set(r, CloneFinish(rec, <<"<html>placeholder</html>">>, io))
                 /\ UNCHANGED vertex_ai_initialized
          ELSE \E out \in EnterService(rec, "CLONE", vertex_ai_initialized,
                                       GCP_PROJECT_ID) :
                 /\ Set(r, out.rec)
                 /\ vertex_ai_initialized' = out.flag
  /\ UNCHANGED GCP_PROJECT_ID

\* build flow: the scraper returns; validation; parse_resume_to_json up to its
\* model call
BuildScraped(r) ==
  /\ run[r].pc = "scraping"
  /\ run[r].flow = "build"
  /\ \E ctx \in ScrapedContexts :
       LET rec == [Logged(run[r], Ev("scraped", "build", 0)) EXCEPT
                     !.simplified_html = ctx.simplified_html,
                     !.screenshots_ok = ctx.screenshots_ok]
           verdict == BuildValidate(ctx.simplified_html)
       IN IF verdict.type # "none"
          THEN Set(r, Raise(rec, verdict)) /\ UNCHANGED vertex_ai_initialized
          ELSE \E out \in EnterService(rec, "PARSE_RESUME", vertex_ai_initialized,
                                       GCP_PROJECT_ID) :
                 /\ Set(r, out.rec)
                 /\ vertex_ai_initialized' = out.flag
  /\ UNCHANGED GCP_PROJECT_ID

\* the PARSE_RESUME call raises (resource exhaustion or any other provider error),
\* or response.text or json.loads raises: all reach the one except Exception
ParseRaises(r) ==
  /\ run[r].pc = "parse_wait"
  /\ \E kind \in {"ResourceExhausted", "Other", "NoText", "JSONDecodeError"} :
       Set(r, Raise(Logged(run[r], Ev("error", kind, 0)), ParseCatch(Exc(kind, 0, ""))))
  /\ UNCHANGED <<vertex_ai_initialized, GCP_PROJECT_ID>>

\* parse_resume_to_json returns; the profile check; generate_portfolio_from_context
\* up to its first model call
ParseReturns(r) ==
  /\ run[r].pc = "parse_wait"
  /\ \E v \in JsonValues :
       LET rec == [run[r] EXCEPT !.resume_json = v]
       IN IF v.type # "object"
          THEN \* resume_json.get on a value that is no dict
               Set(r, Raise(rec, Exc("AttributeError", 0, "")))
               /\ UNCHANGED vertex_ai_initialized
          ELSE IF ~ProfileUsable(v)
          THEN Set(r, Raise(rec, HTTPException(422,
                        "Failed to parse resume text into a usable format.")))
               /\ UNCHANGED vertex_ai_initialized
          ELSE \E out \in EnterService(rec, "BUILD_PORTFOLIO", vertex_ai_initialized,
                                       GCP_PROJECT_ID) :
                 /\ Set(r, out.rec)
                 /\ vertex_ai_initialized' = out.flag
  /\ UNCHANGED GCP_PROJECT_ID

\* generate_content_async raises ResourceExhausted: sleep and retry, or give up
GenResourceExhausted(r) ==
  /\ run[r].pc = "gen_wait"
  /\ Set(r, HandleResourceExhausted(Logged(run[r], Ev("error", "ResourceExhausted", 0))))
  /\ UNCHANGED <<vertex_ai_initialized, GCP_PROJECT_ID>>

\* asyncio.sleep returns: the loop's next pass
GenSleepDone(r) ==
  /\ run[r].pc = "gen_sleep"
  /\ Set(r, BeginAttempt([run[r] EXCEPT !.attempt = @ + 1]))
  /\ UNCHANGED <<vertex_ai_initialized, GCP_PROJECT_ID>>

\* generate_content_async raises anything else
GenOtherError(r) ==
  /\ run[r].pc = "gen_wait"
  /\ Set(r, HandleOtherError(Logged(run[r], Ev("error", "Other", 0))))
  /\ UNCHANGED <<vertex_ai_initialized, GCP_PROJECT_ID>>

\* generate_content_async returns a response without a usable candidate: the
\* HTTPException raised inside the try is caught by its except Exception
GenEmptyResponse(r) ==
  /\ run[r].pc = "gen_wait"
  /\ \E response \in Responses :
       /\ ~Usable(response)
       /\ Set(r, HandleEmptyResponse(
                   [Logged(run[r], Ev("error", "NoContent", 0)) EXCEPT
                      !.response = response]))
  /\ UNCHANGED <<vertex_ai_initialized, GCP_PROJECT_ID>>

\* generate_content_async returns content: the function returns the stripped text
\* and the endpoint runs to its end
GenReturns(r) ==
  /\ run[r].pc = "gen_wait"
  /\ \E response \in Responses :
       /\ Usable(response)
       /\ LET rec == [Logged(run[r], Ev("return", run[r].task, 0)) EXCEPT
                        !.finish_reason = response.finish_reason,
                        !.response = response,
                        !.generated = Val(GeneratedHtml(response))]
          IN IF run[r].task = "CLONE"
             THEN \E io \in FileOutcomes :
                    Set(r, CloneFinish(rec, GeneratedHtml(response), io))
             ELSE \E io \in UploadOutcomes :
                    Set(r, BuildFinish(rec, GeneratedHtml(response), io))
  /\ UNCHANGED <<vertex_ai_initialized, GCP_PROJECT_ID>>

\* the response has been sent; the request's objects are discarded
Finish(r) ==
  /\ run[r].pc \in {"done", "failed"}
  /\ Set(r, IdleRun)
  /\ UNCHANGED <<vertex_ai_initialized, GCP_PROJECT_ID>>

\* requests served one at a time
OthersIdle(r) == \A q \in Runs \ {r} : run[q].pc = "idle"

Next ==
  \/ \E r \in Runs : OthersIdle(r) /\ StartClone(r)
  \/ \E r \in Runs : OthersIdle(r) /\ StartBuild(r)
  \/ \E r \in Runs : OthersIdle(r) /\ ScrapeRaises(r)
  \/ \E r \in Runs : OthersIdle(r) /\ CloneScraped(r)
  \/ \E r \in Runs : OthersIdle(r) /\ BuildScraped(r)
  \/ \E r \in Runs : OthersIdle(r) /\ ParseRaises(r)
  \/ \E r \in Runs : OthersIdle(r) /\ ParseReturns(r)
  \/ \E r \in Runs : OthersIdle(r) /\ GenResourceExhausted(r)
  \/ \E r \in Runs : OthersIdle(r) /\ GenSleepDone(r)
  \/ \E r \in Runs : OthersIdle(r) /\ GenOtherError(r)
  \/ \E r \in Runs : OthersIdle(r) /\ GenEmptyResponse(r)
  \/ \E r \in Runs : OthersIdle(r) /\ GenReturns(r)
  \/ \E r \in Runs : OthersIdle(r) /\ Finish(r)

Spec == Init /\ [][Next]_vars

----------------------------------------------------------------------------
(* Reading a request's history *)

GenTasks == {"CLONE", "BUILD_PORTFOLIO"}

Has(log, op) == \E i \in 1..Len(log) : log[i].op = op

\* the model calls, provider errors and sleeps of a request, in order
Exchange(log) == SelectSeq(log, LAMBDA e : e.op \in {"call", "error", "sleep"})

Calls(log, task) == Len(SelectSeq(log, LAMBDA e : e.op = "call" /\ e.kind = task))

Sleeps(log) == SelectSeq(log, LAMBDA e : e.op = "sleep")

ResourceExhaustedEv == Ev("error", "ResourceExhausted", 0)

\* the exchange of a generation call that met resource exhaustion on all 3 attempts
ExhaustedExchange(task) ==
  << Ev("call", task, 0), ResourceExhaustedEv, Ev("sleep", task, 5),
     Ev("call", task, 0), ResourceExhaustedEv, Ev("sleep", task, 10),
     Ev("call", task, 0), ResourceExhaustedEv >>

\* the exchange of the generation function alone (a build run's parse call left out)
GenExchange(rec) ==
  SelectSeq(Exchange(rec.log), LAMBDA e : e.kind # "PARSE_RESUME")

IsPrefix(s, t) == Len(s) <= Len(t) /\ SubSeq(t, 1, Len(s)) = s

----------------------------------------------------------------------------
(* C1: in a CLONE or BUILD_PORTFOLIO generation call that meets resource      *)
(* exhaustion on every attempt, exactly 3 model calls are made, the sleeps    *)
(* between them are 5 s then 10 s (never 20 s), and the request then fails    *)
(* with HTTP 429.                                                             *)
C1_ExhaustionAfterThreeAttempts ==
  \A r \in Runs :
    LET rec == run[r]
        x == GenExchange(rec)
        allExhausted ==
          \A i \in 1..Len(x) : x[i].op = "error" => x[i] = ResourceExhaustedEv
    IN rec.task \in GenTasks =>
         /\ \A i \in 1..Len(rec.log) :
              rec.log[i].op = "sleep" => rec.log[i].secs \in {5, 10}
         /\ (allExhausted /\ ~Has(rec.log, "return")) =>
              IsPrefix(x, ExhaustedExchange(rec.task))
         /\ (rec.pc = "failed" /\ x # <<>> /\ x[Len(x)] = ResourceExhaustedEv) =>
              /\ x = ExhaustedExchange(rec.task)
              /\ Calls(rec.log, rec.task) = 3
              /\ rec.status_code = 429
         /\ rec.status_code = 429 => x = ExhaustedExchange(rec.task)

C1_Witness ==
  \E r \in Runs :
    /\ run[r].status_code = 429
    /\ run[r].task = "BUILD_PORTFOLIO"
    /\ Len(Sleeps(run[r].log)) = 2

(* C2: every model call, the PARSE_RESUME call included, retries a            *)
(* resource-exhaustion signal with a backoff sleep before the failure is      *)
(* surfaced: no request fails on a resource-exhaustion signal without having  *)
(* slept and called again.                                                    *)
C2_EveryCallRetriesExhaustion ==
  \A r \in Runs :
    LET rec == run[r]
    IN (rec.pc = "failed" /\ rec.log # <<>> /\ rec.log[Len(rec.log)] = ResourceExhaustedEv)
         => /\ Has(rec.log, "sleep")
            /\ Calls(rec.log, rec.task) > 1

----------------------------------------------------------------------------
(* The reasons of the specification, read off the HTTP error *)

ScrapeFailedDetails ==
  {"HTML scraping/cleaning failed.", "Scraping the reference URL failed. Cannot proceed."}

ClientSideCrashDetail ==
  "The provided reference website encountered a client-side error during processing."

EmptyShellDetail ==
  "The reference site seems to be a dynamic application that did not load content in time."

\* the scraper has returned a context to the request
Scraped(rec) == Has(rec.log, "scraped")

\* a service function has been entered (prompt assembly and model calls follow)
GenerationStarted(rec) ==
  Has(rec.log, "initialize") \/ Has(rec.log, "assemble") \/ Has(rec.log, "call")

SaysFailed(html) == \E i \in 1..Len(html) : html[i] \in {"failed", "FAILED"}
SaysEmpty(html) == \E i \in 1..Len(html) : html[i] \in {"empty", "Empty"}
HasCrashMarker(html) == \E i \in 1..Len(html) : html[i] = CrashMarker
IsShortShell(html) ==
  StrLen(html) < 100 /\ \E i \in 1..Len(html) : html[i] = RootDiv

\* validation rejected the context: HTTP 422 and nothing done after the scrape
RejectedAtValidation(rec) ==
  /\ rec.pc = "failed"
  /\ rec.status_code = 422
  /\ rec.log[Len(rec.log)].op = "scraped"

(* C3 as claimed: in every flow, once a generation call has started the       *)
(* request's simplified_html is non-empty and holds no crash marker.          *)
C3_NoCrashedContextInAnyFlow ==
  \A r \in Runs :
    GenerationStarted(run[r]) =>
      /\ run[r].simplified_html # <<>>
      /\ ~HasCrashMarker(run[r].simplified_html)

(* C3 amended: once a generation call has started, the request's              *)
(* simplified_html is non-empty in both flows, and in the build-portfolio     *)
(* flow it holds no crash marker (the clone flow does not check the marker).  *)
C3_NoCrashedContextInBuildFlow ==
  \A r \in Runs :
    GenerationStarted(run[r]) =>
      /\ run[r].simplified_html # <<>>
      /\ run[r].flow = "build" => ~HasCrashMarker(run[r].simplified_html)

C3_Witness ==
  \E r \in Runs :
    /\ run[r].flow = "build"
    /\ run[r].pc = "gen_wait"
    /\ Calls(run[r].log, "BUILD_PORTFOLIO") = 1
    /\ Len(run[r].simplified_html) = 2

(* C4: at both validation sites a context whose simplified_html is empty or   *)
(* holds "failed" or "empty" in any letter case is rejected with ScrapeFailed *)
(* (HTTP 422) and the request does nothing more.                              *)
C4_FailedOrEmptyRejectedEverywhere ==
  \A r \in Runs :
    LET rec == run[r]
    IN (/\ Scraped(rec)
        /\ \/ rec.simplified_html = <<>>
           \/ SaysFailed(rec.simplified_html)
           \/ SaysEmpty(rec.simplified_html))
       => /\ RejectedAtValidation(rec)
          /\ rec.detail \in ScrapeFailedDetails

(* C5 as claimed: every context holding the crash marker, whatever else it    *)
(* holds, is rejected by validation with the reason ClientSideCrash.          *)
C5_CrashMarkerAlwaysClientSideCrash ==
  \A r \in Runs :
    (Scraped(run[r]) /\ HasCrashMarker(run[r].simplified_html))
      => /\ RejectedAtValidation(run[r])
         /\ run[r].detail = ClientSideCrashDetail

(* C5 amended: in the build-portfolio flow every context holding the crash    *)
(* marker is rejected by validation (HTTP 422); the reason is ClientSideCrash *)
(* unless the text also holds "failed" in any letter case, which the earlier  *)
(* check reports as ScrapeFailed.                                             *)
C5_CrashMarkerRejectedInBuildFlow ==
  \A r \in Runs :
    (/\ run[r].flow = "build"
     /\ Scraped(run[r])
     /\ HasCrashMarker(run[r].simplified_html))
      => /\ RejectedAtValidation(run[r])
         /\ run[r].detail = IF SaysFailed(run[r].simplified_html)
                            THEN "Scraping the reference URL failed. Cannot proceed."
                            ELSE ClientSideCrashDetail

C5_Witness ==
  \E r \in Runs :
    /\ run[r].flow = "build"
    /\ run[r].detail = ClientSideCrashDetail
    /\ run[r].simplified_html = <<RootDiv, CrashMarker>>

(* C6: in the build-portfolio flow, a context that fails validation           *)
(* (ScrapeFailed, ClientSideCrash or EmptyShell) ends the request FAILED with *)
(* no initialisation of the provider client, no model call and no upload.     *)
C6_ValidationFailureStopsBuild ==
  \A r \in Runs :
    LET rec == run[r]
        html == rec.simplified_html
    IN /\ (/\ rec.flow = "build"
           /\ Scraped(rec)
           /\ \/ html = <<>>
              \/ SaysFailed(html)
              \/ HasCrashMarker(html)
              \/ IsShortShell(html))
          => /\ RejectedAtValidation(rec)
             /\ rec.detail \in ScrapeFailedDetails \cup {ClientSideCrashDetail, EmptyShellDetail}
       /\ (/\ rec.flow = "build"
           /\ rec.detail \in ScrapeFailedDetails \cup {ClientSideCrashDetail, EmptyShellDetail})
          => /\ rec.pc = "failed"
             /\ ~Has(rec.log, "initialize")
             /\ ~Has(rec.log, "aiplatform.init")
             /\ ~Has(rec.log, "call")
             /\ ~Has(rec.log, "upload")
             /\ rec.artifact = NoArtifact

C6_Witness ==
  \E r \in Runs :
    /\ run[r].flow = "build"
    /\ run[r].pc = "failed"
    /\ run[r].detail = EmptyShellDetail
    /\ vertex_ai_initialized = FALSE

\* the profile names a person / lists a job
HasName(json) == json.name.tag = "value" /\ Len(json.name.val) > 0

HasExperienceEntry(json) == json.experience.tag = "value" /\ Len(json.experience.val) >= 1

(* C7: in the build-portfolio flow the parsed profile passes the check if and *)
(* only if it has a non-empty name or at least one experience entry; a        *)
(* profile with neither is rejected (HTTP 422) before any BUILD_PORTFOLIO     *)
(* model call, and a name with an empty experience array is accepted.         *)
C7_ProfileGate ==
  \A r \in Runs :
    LET rec == run[r]
        nonTrivial == HasName(rec.resume_json) \/ HasExperienceEntry(rec.resume_json)
        passed == \E i \in 1..Len(rec.log) :
                    rec.log[i] = Ev("initialize", "BUILD_PORTFOLIO", 0)
    IN rec.resume_json.type = "object" =>
         /\ passed <=> nonTrivial
         /\ ~nonTrivial =>
              /\ rec.pc = "failed"
              /\ rec.status_code = 422
              /\ rec.detail = "Failed to parse resume text into a usable format."
              /\ Calls(rec.log, "BUILD_PORTFOLIO") = 0
              /\ rec.artifact = NoArtifact

C7_Witness ==
  \E r \in Runs :
    /\ HasName(run[r].resume_json)
    /\ run[r].resume_json.experience = Val(<<>>)
    /\ run[r].pc = "gen_wait"
    /\ Calls(run[r].log, "BUILD_PORTFOLIO") = 1

(* C8: no flow persists a blank document: in the clone flow and in the        *)
(* build-portfolio flow a generation result that is empty after trimming      *)
(* fails the request, and no file write or storage upload happens.            *)
C8_BlankNeverPersisted ==
  \A r \in Runs :
    LET rec == run[r]
    IN (rec.generated.tag = "value" /\ Strip(rec.generated.val) = <<>>)
         => /\ rec.pc = "failed"
            /\ ~Has(rec.log, "open")
            /\ ~Has(rec.log, "write")
            /\ ~Has(rec.log, "upload")
            /\ rec.artifact = NoArtifact

(* C9: a request that ends FAILED has persisted nothing: no file of the       *)
(* clone flow and no object of the build-portfolio flow exists for it.        *)
C9_FailedLeavesNoArtifact ==
  \A r \in Runs : run[r].pc = "failed" => run[r].artifact = NoArtifact

(* C10: in the CLONE and BUILD_PORTFOLIO generation calls a provider error    *)
(* other than resource exhaustion fails the call at once (HTTP 500): it       *)
(* follows the one model call of its attempt, nothing follows it (no sleep,   *)
(* no further call), and on the first attempt exactly one call was made.      *)
C10_OtherErrorIsTerminal ==
  \A r \in Runs :
    LET rec == run[r]
        log == rec.log
    IN rec.task \in GenTasks =>
         \A i \in 1..Len(log) :
           log[i] = Ev("error", "Other", 0) =>
             /\ i = Len(log)
             /\ log[i - 1] = Ev("call", rec.task, 0)
             /\ rec.pc = "failed"
             /\ rec.status_code = 500
             /\ rec.detail \in {"Failed to generate HTML with LLM.",
                                "Failed to generate portfolio with LLM."}
             /\ Calls(log, rec.task) = rec.attempt + 1
             /\ Len(Sleeps(log)) = rec.attempt
             /\ rec.attempt = 0 => Calls(log, rec.task) = 1 /\ Sleeps(log) = <<>>
             /\ rec.artifact = NoArtifact

C10_Witness ==
  \E r \in Runs :
    /\ run[r].task = "CLONE"
    /\ run[r].pc = "failed"
    /\ run[r].log[Len(run[r].log)] = Ev("error", "Other", 0)
    /\ run[r].attempt = 1

----------------------------------------------------------------------------
(* Requests in flight together.  Every handler is a coroutine on one event
   loop: it runs without interruption from one await to the next, which is
   one action here, and the actions of different requests interleave in
   any order while the wall clock advances. *)

\* a second of wall-clock time passes
Tick ==
  /\ now < MaxClock
  /\ now' = now + 1
  /\ UNCHANGED <<run, vertex_ai_initialized, GCP_PROJECT_ID, norm>>

\* what the collaborators answer to requests in flight together: the page
\* <h1>Hi</h1> or an empty page, the profile of John Doe, a response without
\* candidates or the plain document, resource exhaustion once at most
ConcAnswers(rec) ==
  /\ rec.simplified_html \in {<<>>, <<Heading>>}
  /\ rec.simplified_html # <<>> => rec.screenshots_ok
  /\ rec.resume_json \in
       {NoJson, [type |-> "object", name |-> Val(<<"John", Space, "Doe">>),
                 experience |-> Val(<<"job">>)]}
  /\ rec.response \in
       {NoResponse, Response(FALSE, FALSE, <<>>, 0),
        Response(TRUE, TRUE, <<<<Doc>>>>, 1)}
  /\ rec.pc = "gen_sleep" => rec.attempt = 0
  /\ rec.pc = "failed" => rec.artifact = NoArtifact

\* the requests in flight together: a pair
InFlight == {1, 2}

\* variant: time.sleep in place of "await asyncio.sleep": the event loop is
\* held while a request sleeps
ScheduledUnlessAnotherSleeps(r) ==
  \A q \in InFlight \ {r} : run[q].pc # "gen_sleep"

\* the event loop runs the coroutine of r whenever what it awaits is over:
\* "await asyncio.sleep(delay)" suspends the coroutine that sleeps and no other
Scheduled(r) == TRUE

ConcNext ==
  \/ \E r \in InFlight : Scheduled(r) /\ StartClone(r) /\ ConcAnswers(run'[r])
  \/ \E r \in InFlight : Scheduled(r) /\ StartBuild(r) /\ ConcAnswers(run'[r])
  \/ \E r \in InFlight : Scheduled(r) /\ ScrapeRaises(r) /\ ConcAnswers(run'[r])
  \/ \E r \in InFlight : Scheduled(r) /\ CloneScraped(r) /\ ConcAnswers(run'[r])
  \/ \E r \in InFlight : Scheduled(r) /\ BuildScraped(r) /\ ConcAnswers(run'[r])
  \/ \E r \in InFlight : Scheduled(r) /\ ParseRaises(r) /\ ConcAnswers(run'[r])
  \/ \E r \in InFlight : Scheduled(r) /\ ParseReturns(r) /\ ConcAnswers(run'[r])
  \/ \E r \in InFlight : Scheduled(r) /\ GenResourceExhausted(r) /\ ConcAnswers(run'[r])
  \/ \E r \in InFlight : Scheduled(r) /\ GenSleepDone(r) /\ ConcAnswers(run'[r])
  \/ \E r \in InFlight : Scheduled(r) /\ GenOtherError(r) /\ ConcAnswers(run'[r])
  \/ \E r \in InFlight : Scheduled(r) /\ GenEmptyResponse(r) /\ ConcAnswers(run'[r])
  \/ \E r \in InFlight : Scheduled(r) /\ GenReturns(r) /\ ConcAnswers(run'[r])
  \/ \E r \in InFlight : Scheduled(r) /\ Finish(r)
  \/ Tick

ConcSpec == Init /\ [][ConcNext]_vars

----------------------------------------------------------------------------
(* The fence normalization on its own: llm_service.py lines 98-104 and
   292-296 applied to a raw text, and applied again to its own result *)

\* what raw model output is made of
RawTokens == {Fence, HtmlTag, Space, Newline, Doc}

RawTexts == SeqsUpTo(RawTokens, MaxRawTokens)

NormInit ==
  /\ run = [r \in Runs |-> IdleRun]
  /\ vertex_ai_initialized = FALSE
  /\ GCP_PROJECT_ID = TRUE
  /\ now = 0
  /\ norm \in {[stage |-> "raw", raw |-> t, once |-> <<>>, twice |-> <<>>] :
                t \in RawTexts}

\* the normalization of the raw text
NormalizeOnce ==
  /\ norm.stage = "raw"
  /\ norm' = [norm EXCEPT !.stage = "once", !.once = StripFences(norm.raw)]
  /\ UNCHANGED <<run, vertex_ai_initialized, GCP_PROJECT_ID, now>>

\* the normalization of its own result
NormalizeTwice ==
  /\ norm.stage = "once"
  /\ norm' = [norm EXCEPT !.stage = "twice", !.twice = StripFences(norm.once)]
  /\ UNCHANGED <<run, vertex_ai_initialized, GCP_PROJECT_ID, now>>

NormNext ==
  \/ NormalizeOnce
  \/ NormalizeTwice

NormSpec == NormInit /\ [][NormNext]_vars

\* the text begins with the html fence marker
BeginsWithHtmlFence(s) == Len(s) >= 2 /\ s[1] = Fence /\ s[2] = HtmlTag
\* the text ends with a fence marker
EndsWithBareFence(s) == Len(s) >= 1 /\ s[Len(s)] = Fence
\* the html fence marker occurs somewhere in the text
HasHtmlFence(s) == \E i \in 1..(Len(s) - 1) : s[i] = Fence /\ s[i + 1] = HtmlTag

\* C11 as stated: for every model output text, normalizing the normalized
\* text again returns it unchanged
C11_NormalizationIdempotent ==
  norm.stage = "twice" => norm.twice = norm.once

\* how many times the html fence marker occurs in the text
HtmlFenceCount(s) ==
  Cardinality({i \in 1..(Len(s) - 1) : s[i] = Fence /\ s[i + 1] = HtmlTag})
\* how many fence markers occur that are not part of an html fence marker
BareFenceCount(s) ==
  Cardinality({i \in 1..Len(s) :
                 s[i] = Fence /\ (i = Len(s) \/ s[i + 1] # HtmlTag)})

\* C11: for every model output text that contains the html fence marker at
\* most once and at most one further fence marker, normalizing the
\* normalized text again returns it unchanged
C11_IdempotentOnSingleFence ==
  (/\ norm.stage = "twice"
   /\ HtmlFenceCount(norm.raw) <= 1
   /\ BareFenceCount(norm.raw) <= 1)
  => norm.twice = norm.once

\* a fenced document has been normalized twice
C11_Witness ==
  /\ norm.stage = "twice"
  /\ norm.raw = <<Fence, HtmlTag, Doc, Newline, Fence>>
  /\ norm.once = <<Doc>>
  /\ norm.twice = <<Doc>>

\* the text is the html fence marker, an inner text and a fence marker
Wrapped(s) == Len(s) >= 3 /\ BeginsWithHtmlFence(s) /\ EndsWithBareFence(s)
\* the inner text of a wrapped text
Inner(s) == SubSeq(s, 3, Len(s) - 1)

\* C12 as stated: a text without an html fence marker is returned trimmed
\* and otherwise unchanged, and a text wrapped in an html fence is returned
\* as its inner text trimmed
C12_UnfencedUnchangedAndWrappedUnwrapped ==
  norm.stage # "raw" =>
    /\ ~HasHtmlFence(norm.raw) => norm.once = Strip(norm.raw)
    /\ Wrapped(norm.raw) => norm.once = Strip(Inner(norm.raw))

\* C12: a text without an html fence marker that does not end, once
\* trimmed, with a fence marker is returned trimmed and otherwise unchanged,
\* and a text wrapped in an html fence is returned as its inner text trimmed
C12_FenceFreeUnchangedAndWrappedUnwrapped ==
  norm.stage # "raw" =>
    /\ (~HasHtmlFence(norm.raw) /\ ~EndsWithBareFence(Strip(norm.raw)))
         => norm.once = Strip(norm.raw)
    /\ Wrapped(norm.raw) => norm.once = Strip(Inner(norm.raw))

\* a wrapped document with blank space around it has been normalized
C12_Witness ==
  /\ norm.stage = "once"
  /\ norm.raw = <<Fence, HtmlTag, Newline, Doc, Fence>>
  /\ norm.once = <<Doc>>

----------------------------------------------------------------------------
\* the root element occurs in the page
HasRootDiv(html) == \E i \in 1..Len(html) : html[i] = RootDiv

\* the run has entered parse_resume_to_json
ParseStepEntered(rec) ==
  \E i \in 1..Len(rec.log) : rec.log[i] = Ev("initialize", "PARSE_RESUME", 0)

\* C13: in the build-portfolio flow a page that is exactly the root element
\* is rejected as an empty shell (HTTP 422), and a page of 100 characters
\* or more that contains the root element, and neither "failed" nor the
\* crash marker, passes validation and reaches the resume-parse step
C13_ShellRejectedAndLongPageParsed ==
  \A r \in Runs :
    LET rec == run[r]
        html == rec.simplified_html
    IN (rec.flow = "build" /\ Scraped(rec)) =>
         /\ html = <<RootDiv>>
              => /\ RejectedAtValidation(rec)
                 /\ rec.detail = EmptyShellDetail
                 /\ ~ParseStepEntered(rec)
         /\ (/\ HasRootDiv(html)
             /\ StrLen(html) >= 100
             /\ ~SaysFailed(html)
             /\ ~HasCrashMarker(html))
              => /\ ParseStepEntered(rec)
                 /\ ~RejectedAtValidation(rec)

\* a page of exactly 100 characters with the root element is being parsed
C13_Witness ==
  \E r \in Runs :
    /\ run[r].flow = "build"
    /\ run[r].simplified_html = <<RootDiv, Padding79>>
    /\ run[r].pc = "parse_wait"

----------------------------------------------------------------------------
\* the details of the server errors the two generation functions raise
GenFailedDetails ==
  {"Failed to generate HTML with LLM.", "Failed to generate portfolio with LLM.",
   "generation failed after all attempts."}

UnexpectedDetail == "An unexpected server error occurred."

RateLimitDetail == "Resource exhausted after retries."

\* the generation call of the run met resource exhaustion on its last attempt
RetriesExhausted(rec) ==
  LET x == GenExchange(rec)
  IN /\ rec.task \in GenTasks
     /\ Calls(rec.log, rec.task) = 3
     /\ x[Len(x)] = ResourceExhaustedEv

\* C16: when the retries of a CLONE or BUILD_PORTFOLIO generation call are
\* exhausted, the request ends with the rate-limit error (HTTP 429): neither
\* the catch-all of the generation function nor the handler of the endpoint
\* turns it into a server error (500)
C16_ExhaustionSurfacesAs429 ==
  \A r \in Runs :
    LET rec == run[r]
    IN RetriesExhausted(rec) =>
         /\ rec.pc = "failed"
         /\ rec.raised = "HTTPException"
         /\ rec.status_code = 429
         /\ rec.detail = RateLimitDetail
         /\ rec.detail \notin GenFailedDetails \cup {UnexpectedDetail}

\* a clone request has ended with the rate-limit error
C16_Witness ==
  \E r \in Runs :
    /\ run[r].flow = "clone"
    /\ RetriesExhausted(run[r])
    /\ run[r].status_code = 429

\* C17: an exception of a step that is not an HTTP error already is caught
\* at the boundary of the flow and surfaced as HTTP 500; every request ends
\* with a success response or with one HTTP error of status 422, 429 or 500
C17_EveryFailureIsAnHttpError ==
  \A r \in Runs :
    LET rec == run[r]
    IN /\ rec.pc = "failed" =>
            /\ rec.status_code \in {422, 429, 500}
            /\ rec.raised # "none"
            /\ rec.raised # "HTTPException"
                 => rec.status_code = 500 /\ rec.detail = UnexpectedDetail
       /\ rec.pc = "done" => rec.status_code = 200 /\ rec.raised = "none"
       /\ rec.pc \notin {"failed", "done"} =>
            rec.status_code = 0 /\ rec.raised = "none"

\* an exception that is no HTTP error has been surfaced as HTTP 500
C17_Witness ==
  \E r \in Runs :
    /\ run[r].pc = "failed"
    /\ run[r].raised = "AttributeError"
    /\ run[r].status_code = 500

\* the response has no candidate, or its first candidate has no content parts
WithoutContent(response) ==
  \/ ~response.candidates
  \/ ~response.has_content
  \/ response.parts = <<>>

\* C18: a response without candidates, or whose first candidate has no
\* content parts, fails the CLONE or BUILD_PORTFOLIO generation call at once
\* with a server error: no sleep and no model call follow it, whatever the
\* attempt
C18_EmptyResponseIsTerminal ==
  \A r \in Runs :
    LET rec == run[r]
        x == GenExchange(rec)
    IN (/\ rec.task \in GenTasks
        /\ rec.response # NoResponse
        /\ WithoutContent(rec.response))
       => /\ rec.pc = "failed"
          /\ rec.status_code = 500
          /\ rec.detail \in GenFailedDetails
          /\ rec.log[Len(rec.log)] = Ev("error", "NoContent", 0)
          /\ x[Len(x) - 1] = Ev("call", rec.task, 0)
          /\ ~Has(rec.log, "return")
          /\ rec.artifact = NoArtifact

\* a response without content has ended the second attempt of a build
C18_Witness ==
  \E r \in Runs :
    /\ run[r].task = "BUILD_PORTFOLIO"
    /\ run[r].attempt = 1
    /\ run[r].response.candidates
    /\ WithoutContent(run[r].response)
    /\ run[r].pc = "failed"

\* the response was cut at the output limit and has content parts
TruncatedWithContent(response) ==
  /\ response.candidates /\ response.has_content /\ response.parts # <<>>
  /\ response.finish_reason = 2

\* C19: a response cut at the output limit that has content parts is
\* returned by the CLONE and BUILD_PORTFOLIO generation calls as their
\* normalized result; it yields no generation error and no retry
C19_TruncatedResponseIsReturned ==
  \A r \in Runs :
    LET rec == run[r]
        x == GenExchange(rec)
    IN (rec.task \in GenTasks /\ TruncatedWithContent(rec.response))
       => /\ rec.log[Len(rec.log)].op \in {"return", "warning", "open", "write", "upload"}
          /\ Has(rec.log, "return")
          /\ rec.generated.tag = "value"
          /\ x[Len(x)] = Ev("call", rec.task, 0)
          /\ rec.status_code # 429
          /\ rec.detail \notin GenFailedDetails

\* a truncated document has been returned and saved by a clone request
C19_Witness ==
  \E r \in Runs :
    /\ run[r].task = "CLONE"
    /\ TruncatedWithContent(run[r].response)
    /\ run[r].finish_reason = 2
    /\ run[r].generated = Val(<<Doc>>)
    /\ run[r].pc = "done"

----------------------------------------------------------------------------
\* how often an operation occurs in the log
Count(log, op) == Len(SelectSeq(log, LAMBDA e : e.op = op))

\* the step of the flow an event belongs to: 1 SCRAPE, 2 VALIDATE, 3 PARSE,
\* 4 GENERATE, 5 PERSIST
StepRank(e) ==
  CASE e.op = "scrape" -> 1
    [] e.op = "scraped" -> 2
    [] e.kind = "PARSE_RESUME" -> 3
    [] e.op \in {"initialize", "aiplatform.init", "assemble", "call", "sleep", "return"} -> 4
    [] OTHER -> 5

\* a provider error belongs to the step of the call before it
StepRankAt(log, i) ==
  IF log[i].op = "error" THEN StepRank(log[i - 1]) ELSE StepRank(log[i])

\* no log is longer: scrape and validation, the parse call with its
\* initialization, the initialization of the generation, 4 events for each
\* attempt, 3 events of persisting
MaxLogLen == 2 + 3 + 2 + 4 * (max_retries + 1) + 3

\* a step of the request r can be taken: one of the steps that end each of
\* its four waits (the scraper, the parse call, a generation call, a sleep)
Responsive(r) ==
  ENABLED (\/ ScrapeRaises(r) \/ ParseRaises(r)
           \/ GenOtherError(r) \/ GenSleepDone(r))

\* steps in order, none revisited, and the bounds on the collaborators' use
InOrderAndBounded(r) ==
  LET rec == run[r]
      log == rec.log
      calls == Count(log, "call")
  IN rec.pc # "idle" =>
       /\ log[1].op = "scrape"
       /\ \A i \in 2..Len(log) :
            /\ log[i].op # "scrape"
            /\ log[i].op = "error" => log[i - 1].op = "call"
            /\ StepRankAt(log, i - 1) <= StepRankAt(log, i)
       /\ Count(log, "scraped") <= 1
       /\ Count(log, "open") + Count(log, "upload") <= 1
       /\ Count(log, "write") <= 1
       /\ rec.flow = "clone" =>
            calls <= 3 /\ calls = Calls(log, "CLONE")
       /\ rec.flow = "build" =>
            /\ Calls(log, "PARSE_RESUME") <= 1
            /\ Calls(log, "BUILD_PORTFOLIO") <= 3
            /\ calls = Calls(log, "PARSE_RESUME") + Calls(log, "BUILD_PORTFOLIO")
       /\ Len(log) <= MaxLogLen
       /\ rec.pc \notin {"done", "failed"} => Responsive(r)

\* a step of a request lengthens its log or ends it; an ended request only
\* leaves
Advances(r) ==
  run'[r] # run[r] =>
    IF run[r].pc \in {"done", "failed"} THEN run'[r] = IdleRun
    ELSE /\ \/ Len(run'[r].log) > Len(run[r].log)
            \/ run'[r].pc = "failed"
         /\ IsPrefix(run[r].log, run'[r].log)

\* C20: every clone and build-portfolio request ends in DONE or FAILED: its
\* steps occur in the order SCRAPE, VALIDATE, (PARSE), GENERATE, PERSIST
\* and none is revisited, the scraper is called exactly once, persist at
\* most once, and at most 3 model calls are made by a clone request and at
\* most 4 (1 parse and up to 3 build attempts) by a build-portfolio request;
\* a request that has not ended can always take a step, every step
\* lengthens its log or ends the request, and the log is bounded
C20_RunsEndInOrder ==
  /\ [](\A r \in Runs : InOrderAndBounded(r))
  /\ [][\A r \in Runs : Advances(r)]_vars

\* a build request is done after 1 parse call and 3 build attempts
C20_Witness ==
  \E r \in Runs :
    /\ run[r].pc = "done"
    /\ Calls(run[r].log, "PARSE_RESUME") = 1
    /\ Calls(run[r].log, "BUILD_PORTFOLIO") = 3
    /\ Count(run[r].log, "upload") = 1

----------------------------------------------------------------------------
\* the events a step has added to the log of a request
Added(r) ==
  IF IsPrefix(run[r].log, run'[r].log)
  THEN SubSeq(run'[r].log, Len(run[r].log) + 1, Len(run'[r].log))
  ELSE <<>>

InitFailedDetails ==
  {"Vertex AI not initialized or initialization failed.",
   "Vertex AI not initialized for resume parsing.",
   "Vertex AI not initialized for portfolio generation."}

\* C14: with requests in flight together in any interleaving, once a call
\* of initialize_vertex_ai has succeeded the flag is true in every later
\* state, and every later call returns success without calling
\* aiplatform.init again
C14_InitializedForGood ==
  [][vertex_ai_initialized =>
       /\ vertex_ai_initialized'
       /\ \A r \in Runs :
            /\ ~Has(Added(r), "aiplatform.init")
            /\ Has(Added(r), "initialize") => run'[r].detail \notin InitFailedDetails]_vars

\* two requests in flight have both called initialize_vertex_ai, and
\* aiplatform.init has run for the first of them only
C14_Witness ==
  /\ vertex_ai_initialized
  /\ run[1].pc = "gen_sleep" /\ Has(run[1].log, "aiplatform.init")
  /\ run[2].pc = "gen_wait" /\ Has(run[2].log, "initialize")
  /\ ~Has(run[2].log, "aiplatform.init")

\* C15: the artifacts of two distinct successful requests, requests for the
\* same URL or the same profile name that complete within the same second
\* included, are at different locations
C15_ArtifactLocationsDistinct ==
  \A r, q \in Runs :
    (/\ r # q
     /\ run[r].pc = "done" /\ run[r].artifact.complete
     /\ run[q].pc = "done" /\ run[q].artifact.complete)
    => run[r].artifact.path # run[q].artifact.path

----------------------------------------------------------------------------
\* the request q can take a step of its own
CanStep(q) == ENABLED (ConcNext /\ run'[q] # run[q])

\* C21: while a request is suspended in a backoff sleep every other request
\* in flight can take its next step (start, go on, or leave when ended); a
\* step of one request changes no other request, and the only step of a
\* sleeping request is the end of its own sleep, which starts its next
\* attempt
C21_SleepSuspendsOnlyItsOwnRequest ==
  /\ [](\A r, q \in InFlight :
          (r # q /\ run[r].pc = "gen_sleep") => CanStep(q))
  /\ [][\A r \in InFlight :
          /\ \A q \in InFlight \ {r} :
               run'[r] # run[r] => run'[q] = run[q]
          /\ (run[r].pc = "gen_sleep" /\ run'[r] # run[r]) =>
               /\ run'[r].attempt = run[r].attempt + 1
               /\ Added(r) = <<Ev("assemble", run[r].task, 0),
                                Ev("call", run[r].task, 0)>>
          /\ (run[r].pc # "gen_sleep" /\ run[r].task \in GenTasks
              /\ Has(Added(r), "call")) =>
               run[r].attempt = 0 /\ ~Has(run[r].log, "sleep")]_vars

\* a request that entered its generation call after the other one has ended
\* with its artifact written while the other is suspended in its sleep
C21_Witness ==
  /\ run[1].pc = "gen_sleep"
  /\ Has(run[1].log, "aiplatform.init")
  /\ run[2].pc = "done"
  /\ ~Has(run[2].log, "aiplatform.init")

----------------------------------------------------------------------------
\* the text has a character that is not blank space
NonBlank(text) == \E i \in 1..Len(text) : text[i] \notin {Space, Newline}

\* the name part of the object key the specification describes
NamePart(json) ==
  IF json.name.tag = "absent" THEN <<"portfolio">>
  ELSE Lower(SpacesToUnderscores(Strip(json.name.val)))

\* C22: in the build-portfolio flow every profile that passes the
\* non-triviality gate and yields a non-blank generated document reaches
\* PERSIST: the upload is invoked, under a key made of the profile's name
\* (stripped, spaces to underscores, lower-cased; "portfolio" when the name
\* key is absent) and a timestamp; a profile whose name is null and which
\* has an experience entry included
C22_GatedProfileReachesPersist ==
  \A r \in Runs :
    LET rec == run[r]
    IN (/\ rec.flow = "build"
        /\ rec.resume_json.type = "object"
        /\ HasName(rec.resume_json) \/ HasExperienceEntry(rec.resume_json)
        /\ rec.generated.tag = "value"
        /\ NonBlank(rec.generated.val))
       => /\ Has(rec.log, "upload")
          /\ rec.artifact.complete =>
               rec.artifact.path =
                 <<"portfolios/">> \o NamePart(rec.resume_json)
                   \o <<"_portfolio_", Timestamp(now), ".html">>

----------------------------------------------------------------------------
\* every model call in the log comes after an initialize of its function
CallsFollowInitialize(log) ==
  \A i \in 1..Len(log) :
    log[i].op = "call" =>
      \E j \in 1..(i - 1) : log[j] = Ev("initialize", log[i].kind, 0)

\* the request failed because initialize_vertex_ai returned failure
FailedAtInitialize(rec) == rec.detail \in InitFailedDetails

\* C23: no model call is made while the provider client is uninitialized:
\* each of the three functions calls initialize first and, when it fails
\* (no project id, or aiplatform.init raises), fails with HTTP 500 without a
\* model call; a failed initialization leaves the flag false, and the next
\* call of a generation function initializes again
C23_NoCallWhileUninitialized ==
  /\ [](\A r \in Runs :
          LET rec == run[r]
          IN /\ Has(rec.log, "call") => vertex_ai_initialized
             /\ CallsFollowInitialize(rec.log)
             /\ FailedAtInitialize(rec) =>
                  /\ rec.pc = "failed" /\ rec.status_code = 500
                  /\ rec.log[Len(rec.log)].op \in {"initialize", "aiplatform.init"}
                  /\ Calls(rec.log, rec.task) = 0)
  /\ [][\A r \in Runs :
          /\ Has(Added(r), "call") => vertex_ai_initialized'
          /\ Has(Added(r), "initialize") =>
               /\ FailedAtInitialize(run'[r]) <=> ~vertex_ai_initialized'
               /\ FailedAtInitialize(run'[r]) => ~Has(Added(r), "call")
               /\ (~vertex_ai_initialized /\ GCP_PROJECT_ID)
                    => Has(Added(r), "aiplatform.init")
               /\ (~vertex_ai_initialized /\ ~GCP_PROJECT_ID)
                    => FailedAtInitialize(run'[r])]_vars

\* a request has failed at an aiplatform.init that raised, and the next
\* request has run aiplatform.init again and made its model call
C23_Witness ==
  /\ FailedAtInitialize(run[1])
  /\ Has(run[1].log, "aiplatform.init")
  /\ vertex_ai_initialized
  /\ Has(run[2].log, "aiplatform.init")
  /\ Has(run[2].log, "call")

----------------------------------------------------------------------------
FallThroughDetail == "generation failed after all attempts."

\* the exchange of a generation call that succeeds on attempt k
SuccessExchange(task, k) == SubSeq(ExhaustedExchange(task), 1, 3 * k - 2)

\* where the return of the generation function is in the log
ReturnIndex(log) == CHOOSE i \in 1..Len(log) : log[i].op = "return"

\* C24: in the retry loop of the CLONE and BUILD_PORTFOLIO generation calls
\* a success on attempt k (1, 2 or 3) after k-1 resource-exhaustion signals
\* returns the normalized result and ends the loop: no model call and no
\* sleep follow it, and the failure after the loop ("failed after all
\* attempts") is never raised
C24_SuccessEndsTheLoop ==
  \A r \in Runs :
    LET rec == run[r]
        log == rec.log
    IN /\ rec.detail # FallThroughDetail
       /\ (rec.task \in GenTasks /\ Has(log, "return")) =>
            /\ \E k \in 1..3 :
                 /\ rec.attempt = k - 1
                 /\ GenExchange(rec) = SuccessExchange(rec.task, k)
            /\ rec.generated = Val(StripFences(Concat(rec.response.parts)))
            /\ Count(log, "return") = 1
            /\ \A i \in (ReturnIndex(log) + 1)..Len(log) :
                 log[i].op \in {"warning", "open", "write", "upload"}

\* a clone request is done after a success on the third attempt
C24_Witness ==
  \E r \in Runs :
    /\ run[r].task = "CLONE"
    /\ run[r].pc = "done"
    /\ run[r].attempt = 2
    /\ GenExchange(run[r]) = SuccessExchange("CLONE", 3)

====
